---- MODULE Spec2Model ----
(***************************************************************************)
(* Model of distrax's Transformed distribution                             *)
(* (distrax/_src/distributions/transformed.py): a base distribution        *)
(* pushed through a bijector, with lazily inferred batch_shape,            *)
(* event_shape and dtype.                                                  *)
(*                                                                         *)
(* Arrays are abstracted to an integer "content" in 0..DomSize-1 (one      *)
(* value per draw); log-densities and log-determinants are integers.       *)
(* Shapes are sequences of dimension sizes, dtypes are strings.            *)
(***************************************************************************)
EXTENDS Integers, Sequences, FiniteSets, TLC

\* ---------------------------------------------------------------- bounds
DomSize == 3
NumKeys == 2
MaxN == 2
MaxBatchRank == 2
MaxInfer == 3
NumThreads == 2

Dom == 0 .. (DomSize - 1)
Keys == 1 .. NumKeys
SampleSizes == 1 .. MaxN
Threads == 1 .. NumThreads

\* Python's None, and a present value; None differs from every present
\* value, the empty tuple () included.
None == [isNone |-> TRUE]
Some(v) == [isNone |-> FALSE, val |-> v]

\* -------------------------------------------------- base distributions
\* The external BaseDistribution capability: fixed metadata and five
\* operations over the abstract content domain.
BatchShapes == { [i \in 1 .. r |-> i + 1] : r \in 0 .. MaxBatchRank }
EventShapes == { <<>>, <<5>> }
Dtypes == { "float32", "float64" }

Distributions ==
    [ batch_shape : BatchShapes, event_shape : EventShapes, dtype : Dtypes ]

BaseSample(d, key, n) ==
    [ i \in 1 .. n |-> (key + i + Len(d.batch_shape)) % DomSize ]

BaseLogProb(d, x) == 0 - (x * x) - 1 - Len(d.event_shape)

BaseSampleAndLogProb(d, key, n) ==
    LET x == BaseSample(d, key, n)
    IN  [ x |-> x, lp_x |-> [ i \in 1 .. n |-> BaseLogProb(d, x[i]) ] ]

BaseMean(d) == (1 + Len(d.batch_shape)) % DomSize

BaseMode(d) == (2 + Len(d.batch_shape)) % DomSize

BaseEntropy(d) == 4 + Len(d.event_shape)

\* ------------------------------------------------------------ bijectors
\* The external Bijector capability.  map: the forward map on contents;
\* ldj: how the forward log-determinant depends on the input; shape and
\* cast: what the forward map does to the shape and dtype of its input
\* under tracing; has_inverse: FALSE for a forward-only bijector.
Bij(name, nin, nout, cj, cld, inv, map, ldj, shape, cast) ==
    [ name |-> name, event_ndims_in |-> nin, event_ndims_out |-> nout,
      is_constant_jacobian |-> cj, is_constant_log_det |-> cld,
      has_inverse |-> inv, map |-> map, ldj |-> ldj, shape |-> shape,
      cast |-> cast ]

Bijectors ==
    { Bij("affine", 0, 0, TRUE, TRUE, TRUE, "shift", "const", "same", "same"),
      Bij("volume", 0, 0, FALSE, TRUE, TRUE, "reflect", "const", "same", "same"),
      Bij("nonlinear", 0, 0, FALSE, FALSE, TRUE, "reflect", "input", "same", "same"),
      Bij("forward_only", 0, 0, FALSE, FALSE, FALSE, "shift", "input", "same", "same"),
      Bij("block", 1, 1, TRUE, TRUE, TRUE, "shift", "const", "same", "promote"),
      Bij("expand", 0, 1, FALSE, TRUE, TRUE, "reflect", "const", "append", "same"),
      Bij("reduce", 1, 0, FALSE, FALSE, TRUE, "shift", "input", "droplast", "same"),
      Bij("overdeclared", 0, 2, FALSE, TRUE, TRUE, "shift", "const", "same", "same") }

BijForward(b, x) ==
    IF b.map = "shift" THEN (x + 1) % DomSize ELSE DomSize - 1 - x

BijInverse(b, y) ==
    IF b.map = "shift" THEN (y + DomSize - 1) % DomSize ELSE DomSize - 1 - y

BijFLDJ(b, x) ==
    IF b.ldj = "const" THEN 2 ELSE x + 1

BijILDJ(b, y) == 0 - BijFLDJ(b, BijInverse(b, y))

BijForwardAndLogDet(b, x) == [ y |-> BijForward(b, x), fldj |-> BijFLDJ(b, x) ]

BijInverseAndLogDet(b, y) == [ x |-> BijInverse(b, y), ildj |-> BijILDJ(b, y) ]

\* jax.eval_shape(bijector.forward, dummy): output shape and dtype only.
EvalShapeForward(b, dummy) ==
    [ shape |-> CASE b.shape = "same" -> dummy.shape
                  [] b.shape = "append" -> Append(dummy.shape, 7)
                  [] b.shape = "droplast" ->
                       SubSeq(dummy.shape, 1, Len(dummy.shape) - 1),
      dtype |-> IF b.cast = "promote" THEN "float64" ELSE dummy.dtype ]

\* jnp.zeros(shape, dtype)
Zeros(shape, dtype) == [ shape |-> shape, dtype |-> dtype, content |-> 0 ]

\* Python tuple slices shape[-k:] and shape[:-k] for k > 0.
SliceLast(shape, k) ==
    LET start == IF Len(shape) - k < 0 THEN 0 ELSE Len(shape) - k
    IN  SubSeq(shape, start + 1, Len(shape))

SliceButLast(shape, k) ==
    LET stop == IF Len(shape) - k < 0 THEN 0 ELSE Len(shape) - k
    IN  SubSeq(shape, 1, stop)

\* ------------------------------------------------- Transformed: state
VARIABLES
    phase,        \* "new": not yet constructed; "live"; "rejected"
    self,         \* the instance's fields
    result,       \* outcome of the latest operation of the single caller
    calls,        \* base/bijector operations invoked by the latest operation
    hist,         \* latest results of sample and of sample_and_log_prob
    infer_runs,   \* number of passes of _infer_shapes_and_dtype so far
    pc,           \* per thread: position inside an accessor call
    acc,          \* per thread: the accessor being called
    shape_dtype,  \* per thread: the local shape_dtype of its inference pass
    ret,          \* per thread: value returned by its latest accessor call
    thread_runs   \* per thread: inference passes started

vars == << phase, self, result, calls, hist, infer_runs,
           pc, acc, shape_dtype, ret, thread_runs >>

threadVars == << pc, acc, shape_dtype, ret, thread_runs >>

Unconstructed ==
    [ distribution |-> None, bijector |-> None,
      _batch_shape |-> None, _event_shape |-> None, _dtype |-> None ]

Call(fn, arg) == [ fn |-> fn, arg |-> arg ]

CallNames(cs) == [ i \in 1 .. Len(cs) |-> cs[i].fn ]

\* -------------------------------------------- Transformed: operations
\* Variant of __init__ that rejects only a base event rank above the
\* bijector's input rank.
__init__RankAtMost(distribution, bijector) ==
    IF Len(distribution.event_shape) > bijector.event_ndims_in
    THEN [ status |-> "ValueError", self |-> Unconstructed, calls |-> <<>> ]
    ELSE [ status |-> "ok",
           self |-> [ distribution |-> distribution, bijector |-> bijector,
                      _batch_shape |-> None, _event_shape |-> None,
                      _dtype |-> None ],
           calls |-> <<>> ]

\* Transformed.__init__ on canonical (already converted) arguments.
__init__(distribution, bijector) ==
    IF Len(distribution.event_shape) # bijector.event_ndims_in
    THEN [ status |-> "ValueError", self |-> Unconstructed, calls |-> <<>> ]
    ELSE [ status |-> "ok",
           self |-> [ distribution |-> distribution, bijector |-> bijector,
                      _batch_shape |-> None, _event_shape |-> None,
                      _dtype |-> None ],
           calls |-> <<>> ]

\* Lines 95-97: the placeholder and its trace through bijector.forward.
TraceForward(s) ==
    LET dummy_shape == s.distribution.batch_shape \o s.distribution.event_shape
        dummy == Zeros(dummy_shape, s.distribution.dtype)
    IN  EvalShapeForward(s.bijector, dummy)

\* Line 99.
InferredDtype(sd) == sd.dtype

\* Variant of InferredEventShape without the event_ndims_out = 0 case:
\* Python's shape[-0:] is the whole shape.
InferredEventShapeNoZeroCase(s, sd) ==
    IF s.bijector.event_ndims_out = 0
    THEN sd.shape
    ELSE SliceLast(sd.shape, s.bijector.event_ndims_out)

\* Lines 101-102 and 105.
InferredEventShape(s, sd) ==
    IF s.bijector.event_ndims_out = 0
    THEN <<>>
    ELSE SliceLast(sd.shape, s.bijector.event_ndims_out)

\* Lines 101, 103 and 106.
InferredBatchShape(s, sd) ==
    IF s.bijector.event_ndims_out = 0
    THEN sd.shape
    ELSE SliceButLast(sd.shape, s.bijector.event_ndims_out)

\* The whole pass, as one caller runs it: the instance after the pass.
_infer_shapes_and_dtype(s) ==
    LET sd == TraceForward(s)
        s1 == [ s EXCEPT !._dtype = Some(InferredDtype(sd)) ]
        s2 == [ s1 EXCEPT !._event_shape = Some(InferredEventShape(s1, sd)) ]
    IN  [ s2 EXCEPT !._batch_shape = Some(InferredBatchShape(s2, sd)) ]

\* Variants of the accessors' tests: truthiness instead of "is None" (an
\* empty tuple counts as unset), and a test of the wrong field.
EventShapeUnsetFalsy(s) == s._event_shape = None \/ s._event_shape = Some(<<>>)

EventShapeUnsetWrongField(s) == s._dtype = None

BatchShapeUnsetFalsy(s) == s._batch_shape = None \/ s._batch_shape = Some(<<>>)

\* The accessors' "is None" tests.
DtypeUnset(s) == s._dtype = None

EventShapeUnset(s) == s._event_shape = None

BatchShapeUnset(s) == s._batch_shape = None

Accessors == { "dtype", "event_shape", "batch_shape" }

NeedsInference(a, s) ==
    CASE a = "dtype" -> DtypeUnset(s)
      [] a = "event_shape" -> EventShapeUnset(s)
      [] a = "batch_shape" -> BatchShapeUnset(s)

FieldOf(a, s) ==
    CASE a = "dtype" -> s._dtype
      [] a = "event_shape" -> s._event_shape
      [] a = "batch_shape" -> s._batch_shape

\* An accessor called by a single caller: the instance afterwards, the value
\* returned and whether the inference pass ran.
Accessor(a, s) ==
    LET inferred == NeedsInference(a, s)
        s1 == IF inferred THEN _infer_shapes_and_dtype(s) ELSE s
    IN  [ self |-> s1, value |-> FieldOf(a, s1), inferred |-> inferred,
          calls |-> IF inferred
                    THEN << Call("eval_shape(bijector.forward)",
                                 << s.distribution.batch_shape \o
                                    s.distribution.event_shape >>) >>
                    ELSE <<>> ]

\* Variant of log_prob that subtracts the inverse log-determinant.
log_prob_subtracting(s, y) ==
    IF ~ s.bijector.has_inverse
    THEN [ status |-> "InverseError", value |-> None,
           calls |-> << Call("bijector.inverse_and_log_det", <<y>>) >> ]
    ELSE LET inv == BijInverseAndLogDet(s.bijector, y)
             lp_x == BaseLogProb(s.distribution, inv.x)
         IN  [ status |-> "ok", value |-> lp_x - inv.ildj,
               calls |-> << Call("bijector.inverse_and_log_det", <<y>>),
                            Call("distribution.log_prob", << inv.x >>) >> ]

log_prob(s, y) ==
    IF ~ s.bijector.has_inverse
    THEN [ status |-> "InverseError", value |-> None,
           calls |-> << Call("bijector.inverse_and_log_det", <<y>>) >> ]
    ELSE LET inv == BijInverseAndLogDet(s.bijector, y)
             x == inv.x
             ildj_y == inv.ildj
             lp_x == BaseLogProb(s.distribution, x)
             lp_y == lp_x + ildj_y
         IN  [ status |-> "ok", value |-> lp_y,
               calls |-> << Call("bijector.inverse_and_log_det", <<y>>),
                            Call("distribution.log_prob", <<x>>) >> ]

\* Variant of _sample_n that returns the base samples untransformed.
_sample_n_untransformed(s, key, n) ==
    LET x == BaseSample(s.distribution, key, n)
    IN  [ status |-> "ok", value |-> x,
          calls |-> << Call("distribution.sample", <<key, n>>),
                       Call("vmap(bijector.forward)", x) >> ]

_sample_n(s, key, n) ==
    LET x == BaseSample(s.distribution, key, n)
        y == [ i \in 1 .. n |-> BijForward(s.bijector, x[i]) ]
    IN  [ status |-> "ok", value |-> y,
          calls |-> << Call("distribution.sample", <<key, n>>),
                       Call("vmap(bijector.forward)", x) >> ]

\* Variant of _sample_n_and_log_prob that adds the forward log-determinant.
_sample_n_and_log_prob_adding(s, key, n) ==
    LET joint == BaseSampleAndLogProb(s.distribution, key, n)
        x == joint.x
        fwd == [ i \in 1 .. n |-> BijForwardAndLogDet(s.bijector, x[i]) ]
    IN  [ status |-> "ok",
          value |-> [ y |-> [ i \in 1 .. n |-> fwd[i].y ],
                      lp_y |-> [ i \in 1 .. n |-> joint.lp_x[i] + fwd[i].fldj ] ],
          calls |-> << Call("distribution.sample_and_log_prob", <<key, n>>),
                       Call("vmap(bijector.forward_and_log_det)", x) >> ]

\* Variant of _sample_n_and_log_prob that samples and then evaluates the
\* density of each sample through the bijector's inverse.
_sample_n_and_log_prob_via_inverse(s, key, n) ==
    LET x == BaseSample(s.distribution, key, n)
        y == [ i \in 1 .. n |-> BijForward(s.bijector, x[i]) ]
        inv == [ i \in 1 .. n |-> BijInverseAndLogDet(s.bijector, y[i]) ]
        lp_y == [ i \in 1 .. n |->
                    BaseLogProb(s.distribution, inv[i].x) + inv[i].ildj ]
    IN  [ status |-> IF s.bijector.has_inverse THEN "ok" ELSE "InverseError",
          value |-> [ y |-> y, lp_y |-> lp_y ],
          calls |-> << Call("distribution.sample", <<key, n>>),
                       Call("vmap(bijector.forward)", x),
                       Call("bijector.inverse_and_log_det", y),
                       Call("distribution.log_prob", x) >> ]

_sample_n_and_log_prob(s, key, n) ==
    LET joint == BaseSampleAndLogProb(s.distribution, key, n)
        x == joint.x
        lp_x == joint.lp_x
        fwd == [ i \in 1 .. n |-> BijForwardAndLogDet(s.bijector, x[i]) ]
        y == [ i \in 1 .. n |-> fwd[i].y ]
        fldj == [ i \in 1 .. n |-> fwd[i].fldj ]
        lp_y == [ i \in 1 .. n |-> lp_x[i] - fldj[i] ]
    IN  [ status |-> "ok", value |-> [ y |-> y, lp_y |-> lp_y ],
          calls |-> << Call("distribution.sample_and_log_prob", <<key, n>>),
                       Call("vmap(bijector.forward_and_log_det)", x) >> ]

\* Variant of mean gated by is_constant_log_det.
mean_gated_by_log_det(s) ==
    IF s.bijector.is_constant_log_det
    THEN LET m == BaseMean(s.distribution)
         IN  [ status |-> "ok", value |-> BijForward(s.bijector, m),
               calls |-> << Call("distribution.mean", <<>>),
                            Call("bijector.forward", <<m>>) >> ]
    ELSE [ status |-> "NotImplementedError", value |-> None, calls |-> <<>> ]

mean(s) ==
    IF s.bijector.is_constant_jacobian
    THEN LET m == BaseMean(s.distribution)
         IN  [ status |-> "ok", value |-> BijForward(s.bijector, m),
               calls |-> << Call("distribution.mean", <<>>),
                            Call("bijector.forward", <<m>>) >> ]
    ELSE [ status |-> "NotImplementedError", value |-> None, calls |-> <<>> ]

mode(s) ==
    IF s.bijector.is_constant_log_det
    THEN LET m == BaseMode(s.distribution)
         IN  [ status |-> "ok", value |-> BijForward(s.bijector, m),
               calls |-> << Call("distribution.mode", <<>>),
                            Call("bijector.forward", <<m>>) >> ]
    ELSE [ status |-> "NotImplementedError", value |-> None, calls |-> <<>> ]

\* input_hint is None or Some(array).
entropy(s, input_hint) ==
    IF s.bijector.is_constant_log_det
    THEN LET shape == s.distribution.batch_shape \o s.distribution.event_shape
             hint == IF input_hint = None
                     THEN Zeros(shape, s.distribution.dtype)
                     ELSE input_hint.val
             ent == BaseEntropy(s.distribution)
             fldj == BijFLDJ(s.bijector, hint.content)
         IN  [ status |-> "ok", value |-> ent + fldj,
               calls |-> << Call("distribution.entropy", <<>>),
                            Call("bijector.forward_log_det_jacobian", hint) >> ]
    ELSE [ status |-> "NotImplementedError", value |-> None, calls |-> <<>> ]

\* ------------------------------------------------ single caller: actions
Outcome(op, args, status, value) ==
    [ op |-> op, args |-> args, status |-> status, value |-> value ]

Hints(s) ==
    { None } \cup
    { Some([ shape |-> s.distribution.batch_shape \o s.distribution.event_shape,
             dtype |-> s.distribution.dtype, content |-> c ]) : c \in Dom }

ThreadsIdle ==
    /\ pc = [ t \in Threads |-> "idle" ]
    /\ acc = [ t \in Threads |-> None ]
    /\ shape_dtype = [ t \in Threads |-> None ]
    /\ ret = [ t \in Threads |-> None ]
    /\ thread_runs = [ t \in Threads |-> 0 ]

Init ==
    /\ phase = "new"
    /\ self = Unconstructed
    /\ result = Outcome("none", <<>>, "ok", None)
    /\ calls = <<>>
    /\ hist = [ sample |-> None, slp |-> None ]
    /\ infer_runs = 0
    /\ ThreadsIdle

Construct(d, b) ==
    /\ phase = "new"
    /\ LET r == __init__(d, b)
       IN  /\ phase' = IF r.status = "ok" THEN "live" ELSE "rejected"
           /\ self' = r.self
           /\ result' = Outcome("__init__", [ distribution |-> d, bijector |-> b ],
                                r.status, None)
           /\ calls' = r.calls
    /\ UNCHANGED << hist, infer_runs, threadVars >>

CallAccessor(a) ==
    /\ phase = "live"
    /\ infer_runs < MaxInfer
    /\ LET r == Accessor(a, self)
       IN  /\ self' = r.self
           /\ result' = Outcome(a, <<>>, "ok", r.value)
           /\ calls' = r.calls
           /\ infer_runs' = IF r.inferred THEN infer_runs + 1 ELSE infer_runs
    /\ UNCHANGED << phase, hist, threadVars >>

CallLogProb(y) ==
    /\ phase = "live"
    /\ LET r == log_prob(self, y)
       IN  /\ result' = Outcome("log_prob", <<y>>, r.status, r.value)
           /\ calls' = r.calls
    /\ UNCHANGED << phase, self, infer_runs, threadVars >>

CallSample(key, n) ==
    /\ phase = "live"
    /\ LET r == _sample_n(self, key, n)
       IN  /\ result' = Outcome("sample", <<key, n>>, r.status, r.value)
           /\ calls' = r.calls
    /\ UNCHANGED << phase, self, infer_runs, threadVars >>

CallSampleAndLogProb(key, n) ==
    /\ phase = "live"
    /\ LET r == _sample_n_and_log_prob(self, key, n)
       IN  /\ result' = Outcome("sample_and_log_prob", <<key, n>>, r.status,
                                r.value)
           /\ calls' = r.calls
    /\ UNCHANGED << phase, self, infer_runs, threadVars >>

CallMean ==
    /\ phase = "live"
    /\ LET r == mean(self)
       IN  /\ result' = Outcome("mean", <<>>, r.status, r.value)
           /\ calls' = r.calls
    /\ UNCHANGED << phase, self, hist, infer_runs, threadVars >>

CallMode ==
    /\ phase = "live"
    /\ LET r == mode(self)
       IN  /\ result' = Outcome("mode", <<>>, r.status, r.value)
           /\ calls' = r.calls
    /\ UNCHANGED << phase, self, hist, infer_runs, threadVars >>

CallEntropy(input_hint) ==
    /\ phase = "live"
    /\ LET r == entropy(self, input_hint)
       IN  /\ result' = Outcome("entropy", input_hint, r.status, r.value)
           /\ calls' = r.calls
    /\ UNCHANGED << phase, self, hist, infer_runs, threadVars >>

Next ==
    \/ \E d \in Distributions, b \in Bijectors : Construct(d, b)
    \/ \E a \in Accessors : CallAccessor(a)
    \/ \E y \in Dom : CallLogProb(y) /\ UNCHANGED hist
    \/ \E key \in Keys, n \in SampleSizes :
          CallSample(key, n) /\ UNCHANGED hist
    \/ \E key \in Keys, n \in SampleSizes :
          CallSampleAndLogProb(key, n) /\ UNCHANGED hist
    \/ CallMean
    \/ CallMode
    \/ phase = "live" /\ \E h \in Hints(self) : CallEntropy(h)

Spec == Init /\ [][Next]_vars

\* ------------------------------------- sampling paths of a live instance
\* The sampling and density operations of a constructed instance, with the
\* latest result of sample and of sample_and_log_prob kept in hist.
Constructed(dists, bijs) ==
    /\ \E d \in dists, b \in bijs :
         LET r == __init__(d, b)
         IN  /\ r.status = "ok"
             /\ self = r.self
             /\ result = Outcome("__init__", [ distribution |-> d, bijector |-> b ],
                                 r.status, None)
             /\ calls = r.calls
    /\ phase = "live"
    /\ hist = [ sample |-> None, slp |-> None ]
    /\ infer_runs = 0
    /\ ThreadsIdle

InitSampling == Constructed(Distributions, Bijectors)

NextSampling ==
    \/ \E y \in Dom : CallLogProb(y) /\ UNCHANGED hist
    \/ \E key \in Keys, n \in SampleSizes :
          /\ CallSample(key, n)
          /\ hist' = [ hist EXCEPT !.sample =
                         Some([ key |-> key, n |-> n, y |-> result'.value ]) ]
    \/ \E key \in Keys, n \in SampleSizes :
          /\ CallSampleAndLogProb(key, n)
          /\ hist' = [ hist EXCEPT !.slp =
                         Some([ key |-> key, n |-> n, y |-> result'.value.y,
                                lp_y |-> result'.value.lp_y ]) ]

SpecSampling == InitSampling /\ [][NextSampling]_vars

\* ------------------------------------------------ single caller: claims
AllUnset(s) == s._dtype = None /\ s._event_shape = None /\ s._batch_shape = None

AllSet(s) == s._dtype # None /\ s._event_shape # None /\ s._batch_shape # None

Invoked(fn) == \E i \in 1 .. Len(calls) : calls[i].fn = fn

\* C1: construction fails with the ValueError (the ShapeMismatch error)
\* exactly when len(distribution.event_shape) # bijector.event_ndims_in, and
\* then no instance exists; otherwise it succeeds, stores the pair, leaves
\* the three cached fields unset and invokes no base or bijector operation.
C1_ConstructionValidates ==
    /\ phase = "rejected" => self = Unconstructed /\ result.op = "__init__"
    /\ result.op = "__init__" =>
         LET d == result.args.distribution
             b == result.args.bijector
             mismatch == Len(d.event_shape) # b.event_ndims_in
         IN  /\ result.status = (IF mismatch THEN "ValueError" ELSE "ok")
             /\ phase = (IF mismatch THEN "rejected" ELSE "live")
             /\ calls = <<>>
             /\ infer_runs = 0
             /\ ~ mismatch =>
                  /\ self.distribution = d
                  /\ self.bijector = b
                  /\ AllUnset(self)

C1_Witness ==
    /\ result.op = "__init__"
    /\ result.status = "ValueError"
    /\ Len(result.args.distribution.event_shape) = 1
    /\ result.args.bijector.event_ndims_in = 0

\* C2: log_prob(y) returns base.log_prob(x) + ildj for (x, ildj) =
\* bijector.inverse_and_log_det(y), through exactly one inversion and one
\* base-density evaluation per call.
C2_LogProbAddsInverseLogDet ==
    result.op = "log_prob" =>
        LET y == result.args[1]
        IN  /\ Len(calls) >= 1
            /\ calls[1].fn = "bijector.inverse_and_log_det"
            /\ calls[1].arg = <<y>>
            /\ result.status = "ok" =>
                 LET inv == BijInverseAndLogDet(self.bijector, y)
                 IN  /\ result.value =
                            BaseLogProb(self.distribution, inv.x) + inv.ildj
                     /\ CallNames(calls) = << "bijector.inverse_and_log_det",
                                              "distribution.log_prob" >>
                     /\ calls[2].arg = << inv.x >>

C2_Witness ==
    /\ result.op = "log_prob"
    /\ result.status = "ok"
    /\ BijILDJ(self.bijector, result.args[1]) # 0
    /\ self.bijector.ldj = "input"

\* C3: sample_and_log_prob(key, n) pairs each draw x_i of one call to the
\* base's joint primitive with (y_i, lp_x_i - fldj_i), where (y_i, fldj_i) =
\* bijector.forward_and_log_det(x_i).
C3_JointSubtractsForwardLogDet ==
    result.op = "sample_and_log_prob" =>
        LET key == result.args[1]
            n == result.args[2]
            joint == BaseSampleAndLogProb(self.distribution, key, n)
        IN  /\ result.status = "ok"
            /\ DOMAIN result.value.y = 1 .. n
            /\ DOMAIN result.value.lp_y = 1 .. n
            /\ \A i \in 1 .. n :
                 LET fwd == BijForwardAndLogDet(self.bijector, joint.x[i])
                 IN  /\ result.value.y[i] = fwd.y
                     /\ result.value.lp_y[i] = joint.lp_x[i] - fwd.fldj
            /\ Len(calls) = 2
            /\ calls[1] = Call("distribution.sample_and_log_prob", <<key, n>>)
            /\ calls[2].fn = "vmap(bijector.forward_and_log_det)"
            /\ calls[2].arg = joint.x

C3_Witness ==
    /\ result.op = "sample_and_log_prob"
    /\ result.args[2] = 2
    /\ self.bijector.ldj = "input"
    /\ result.value.lp_y[1] # result.value.lp_y[2]

\* C4: for the same key and n, sample returns the y component of
\* sample_and_log_prob, and the density component of sample_and_log_prob
\* equals log_prob at those y (base and bijector meeting their contracts).
C4_SamplePathsAgree ==
    /\ (hist.sample # None /\ hist.slp # None
          /\ hist.sample.val.key = hist.slp.val.key
          /\ hist.sample.val.n = hist.slp.val.n)
         => hist.sample.val.y = hist.slp.val.y
    /\ (hist.slp # None /\ result.op = "log_prob" /\ result.status = "ok")
         => \A i \in 1 .. hist.slp.val.n :
              hist.slp.val.y[i] = result.args[1]
                => hist.slp.val.lp_y[i] = result.value

C4_Witness ==
    /\ hist.sample # None
    /\ hist.slp # None
    /\ hist.sample.val.key = hist.slp.val.key
    /\ hist.sample.val.n = 2
    /\ hist.slp.val.n = 2
    /\ result.op = "log_prob"
    /\ result.status = "ok"
    /\ result.args[1] = hist.slp.val.y[2]
    /\ self.bijector.ldj = "input"

\* C5: mean is gated by is_constant_jacobian, mode and entropy by
\* is_constant_log_det; a licensed call returns forward(base.mean()),
\* forward(base.mode()), or base.entropy() + forward_log_det_jacobian(h) with
\* h the hint or zeros of the base's batch ++ event shape and dtype; an
\* unlicensed call fails with NotImplementedError (the NotSupported error),
\* returns nothing and invokes no base or bijector operation.
C5_Refused ==
    /\ result.status = "NotImplementedError"
    /\ result.value = None
    /\ calls = <<>>

C5_ClosedFormsGated ==
    LET d == self.distribution
        b == self.bijector
    IN  /\ result.op = "mean" =>
              IF b.is_constant_jacobian
              THEN /\ result.status = "ok"
                   /\ result.value = BijForward(b, BaseMean(d))
                   /\ calls = << Call("distribution.mean", <<>>),
                                 Call("bijector.forward", << BaseMean(d) >>) >>
              ELSE C5_Refused
        /\ result.op = "mode" =>
              IF b.is_constant_log_det
              THEN /\ result.status = "ok"
                   /\ result.value = BijForward(b, BaseMode(d))
                   /\ calls = << Call("distribution.mode", <<>>),
                                 Call("bijector.forward", << BaseMode(d) >>) >>
              ELSE C5_Refused
        /\ result.op = "entropy" =>
              IF b.is_constant_log_det
              THEN LET h == IF result.args = None
                            THEN [ shape |-> d.batch_shape \o d.event_shape,
                                   dtype |-> d.dtype, content |-> 0 ]
                            ELSE result.args.val
                   IN  /\ result.status = "ok"
                       /\ result.value = BaseEntropy(d) + BijFLDJ(b, h.content)
                       /\ CallNames(calls) =
                              << "distribution.entropy",
                                 "bijector.forward_log_det_jacobian" >>
                       /\ calls[2].arg = h
              ELSE C5_Refused

C5_Witness ==
    /\ result.op = "mean"
    /\ result.status = "NotImplementedError"
    /\ self.bijector.is_constant_log_det
    /\ ~ self.bijector.is_constant_jacobian

\* C6: the bijector's inverse primitive is invoked by log_prob only; sample
\* and sample_and_log_prob use forward primitives only and so succeed for a
\* forward-only bijector; sample_and_log_prob makes one call to the base's
\* joint primitive and no separate base sample or log_prob call.
ForwardOnlyCalls(baseFn) ==
    /\ Len(calls) = 2
    /\ calls[1].fn = baseFn
    /\ calls[2].fn \in { "vmap(bijector.forward)",
                         "vmap(bijector.forward_and_log_det)" }

C6_InverseOnlyInLogProb ==
    /\ Invoked("bijector.inverse_and_log_det") => result.op = "log_prob"
    /\ result.op = "sample" =>
         result.status = "ok" /\ ForwardOnlyCalls("distribution.sample")
    /\ result.op = "sample_and_log_prob" =>
         /\ result.status = "ok"
         /\ ForwardOnlyCalls("distribution.sample_and_log_prob")
         /\ ~ Invoked("distribution.sample")
         /\ ~ Invoked("distribution.log_prob")

C6_Witness ==
    /\ result.op = "sample_and_log_prob"
    /\ result.status = "ok"
    /\ ~ self.bijector.has_inverse
    /\ result.args[2] = 2

\* C7: for a single caller the three cached fields are all unset or all set
\* between operations; they become set on the first accessor call, through
\* one inference pass; afterwards no operation changes them or infers again
\* (an inferred empty tuple included), so a repeated accessor returns the
\* same value.
C7_Between ==
    phase = "live" =>
        /\ AllUnset(self) \/ AllSet(self)
        /\ AllUnset(self) <=> infer_runs = 0
        /\ AllSet(self) <=> infer_runs = 1
        /\ result.op \in Accessors =>
             AllSet(self) /\ result.value = FieldOf(result.op, self)

C7_Step ==
    /\ (phase = "live" /\ AllUnset(self) /\ ~ AllUnset(self')) =>
          /\ result'.op \in Accessors
          /\ self' = _infer_shapes_and_dtype(self)
          /\ infer_runs' = infer_runs + 1
    /\ (phase = "live" /\ AllUnset(self) /\ result'.op \in Accessors) =>
          AllSet(self')
    /\ (phase = "live" /\ AllSet(self)) =>
          /\ self' = self
          /\ infer_runs' = infer_runs
          /\ result'.op \in Accessors => result'.value = FieldOf(result'.op, self)

C7_CacheSetOnce == [] C7_Between /\ [][C7_Step]_vars

C7_Witness ==
    /\ phase = "live"
    /\ infer_runs = 1
    /\ self._event_shape = Some(<<>>)
    /\ self._batch_shape = Some(<<>>)
    /\ result.op = "entropy"
    /\ result.status = "NotImplementedError"

\* C8 as stated: event_shape always has exactly event_ndims_out dimensions,
\* is the trailing part of the traced shape S, and batch_shape ++ event_shape
\* is S.
TracedShape == TraceForward(self).shape

IsTrailing(e, S, m) ==
    /\ Len(e) = m
    /\ \A i \in 1 .. m : e[i] = S[Len(S) - m + i]

IsLeading(p, S, m) ==
    /\ Len(p) = m
    /\ \A i \in 1 .. m : p[i] = S[i]

C8_Original ==
    (phase = "live" /\ AllSet(self)) =>
        LET S == TracedShape
            k == self.bijector.event_ndims_out
            e == self._event_shape.val
            p == self._batch_shape.val
        IN  /\ IsTrailing(e, S, k)
            /\ IsLeading(p, S, Len(S) - k)
            /\ p \o e = S

\* C8 (amended): with S the traced shape and k = event_ndims_out, event_shape
\* is the trailing min(k, len(S)) dimensions of S and batch_shape the leading
\* rest, so batch_shape ++ event_shape = S; event_shape has exactly k
\* dimensions when k <= len(S), and is all of S when k > len(S).  For a
\* shape-preserving bijector with event_ndims_in = event_ndims_out = 0,
\* event_shape = () and batch_shape = base.batch_shape.
C8_EventIsTrailingPart ==
    (phase = "live" /\ AllSet(self)) =>
        LET S == TracedShape
            k == self.bijector.event_ndims_out
            m == IF k <= Len(S) THEN k ELSE Len(S)
            e == self._event_shape.val
            p == self._batch_shape.val
        IN  /\ IsTrailing(e, S, m)
            /\ IsLeading(p, S, Len(S) - m)
            /\ p \o e = S
            /\ k <= Len(S) => Len(e) = k
            /\ k = 0 => e = <<>>
            /\ (k = 0 /\ self.bijector.event_ndims_in = 0
                  /\ self.bijector.shape = "same")
                 => p = self.distribution.batch_shape

C8_Witness ==
    /\ phase = "live"
    /\ AllSet(self)
    /\ self.bijector.event_ndims_out = 1
    /\ Len(TracedShape) = 3
    /\ self._event_shape.val = << 7 >>
    /\ self._batch_shape.val = << 2, 3 >>

\* ------------------------------------------ concurrent accessor calls
\* Several threads call the accessors of one constructed instance.  Each
\* attribute read and each attribute write is one step.
seqVars == << phase, result, calls, hist >>

ConcDistributions ==
    { d \in Distributions : d.dtype = "float32" /\ Len(d.batch_shape) <= 1 }

ConcBijectors == { b \in Bijectors : b.name \in { "affine", "block", "expand" } }

InitConc == Constructed(ConcDistributions, ConcBijectors)

\* `if self._<field> is None:` at the head of accessor a (lines 111, 118, 125).
Enter(t, a) ==
    /\ pc[t] = "idle"
    /\ thread_runs[t] < MaxInfer
    /\ acc' = [ acc EXCEPT ![t] = Some(a) ]
    /\ pc' = [ pc EXCEPT ![t] = IF NeedsInference(a, self)
                                THEN "trace" ELSE "return" ]
    /\ UNCHANGED << self, infer_runs, shape_dtype, ret, thread_runs, seqVars >>

\* Lines 95-97 of the thread's own inference pass.
Trace(t) ==
    /\ pc[t] = "trace"
    /\ shape_dtype' = [ shape_dtype EXCEPT ![t] = Some(TraceForward(self)) ]
    /\ infer_runs' = infer_runs + 1
    /\ thread_runs' = [ thread_runs EXCEPT ![t] = @ + 1 ]
    /\ pc' = [ pc EXCEPT ![t] = "set_dtype" ]
    /\ UNCHANGED << self, acc, ret, seqVars >>

\* Line 99.
SetDtype(t) ==
    /\ pc[t] = "set_dtype"
    /\ self' = [ self EXCEPT !._dtype = Some(InferredDtype(shape_dtype[t].val)) ]
    /\ pc' = [ pc EXCEPT ![t] = "set_event_shape" ]
    /\ UNCHANGED << infer_runs, acc, shape_dtype, ret, thread_runs, seqVars >>

\* Line 102 or 105.
SetEventShape(t) ==
    /\ pc[t] = "set_event_shape"
    /\ self' = [ self EXCEPT !._event_shape =
                   Some(InferredEventShape(self, shape_dtype[t].val)) ]
    /\ pc' = [ pc EXCEPT ![t] = "set_batch_shape" ]
    /\ UNCHANGED << infer_runs, acc, shape_dtype, ret, thread_runs, seqVars >>

\* Line 103 or 106.
SetBatchShape(t) ==
    /\ pc[t] = "set_batch_shape"
    /\ self' = [ self EXCEPT !._batch_shape =
                   Some(InferredBatchShape(self, shape_dtype[t].val)) ]
    /\ pc' = [ pc EXCEPT ![t] = "return" ]
    /\ UNCHANGED << infer_runs, acc, shape_dtype, ret, thread_runs, seqVars >>

\* `return self._<field>` (lines 113, 120, 127).
Return(t) ==
    /\ pc[t] = "return"
    /\ ret' = [ ret EXCEPT ![t] =
                  Some([ accessor |-> acc[t].val,
                         value |-> FieldOf(acc[t].val, self) ]) ]
    /\ acc' = [ acc EXCEPT ![t] = None ]
    /\ shape_dtype' = [ shape_dtype EXCEPT ![t] = None ]
    /\ pc' = [ pc EXCEPT ![t] = "idle" ]
    /\ UNCHANGED << self, infer_runs, thread_runs, seqVars >>

NextConc ==
    \/ \E t \in Threads, a \in Accessors : Enter(t, a)
    \/ \E t \in Threads : Trace(t)
    \/ \E t \in Threads : SetDtype(t)
    \/ \E t \in Threads : SetEventShape(t)
    \/ \E t \in Threads : SetBatchShape(t)
    \/ \E t \in Threads : Return(t)

SpecConc == InitConc /\ [][NextConc]_vars

\* The triple one caller alone would cache.
SingleThreaded == _infer_shapes_and_dtype(self)

\* Every thread has completed an accessor call and none is inside one.
Finished == \A t \in Threads : pc[t] = "idle" /\ ret[t] # None

\* C9: under every interleaving of the accessors' checks, the three field
\* writes and the final reads, no accessor returns an unset value, each
\* returns what a single-threaded call returns, and once all threads are
\* finished the cached triple is the single-threaded one.
C9_RacingAccessorsBenign ==
    /\ \A t \in Threads :
         ret[t] # None =>
           /\ ret[t].val.value # None
           /\ ret[t].val.value = FieldOf(ret[t].val.accessor, SingleThreaded)
    /\ Finished => self = SingleThreaded

C9_Witness ==
    /\ Finished
    /\ infer_runs = 2
    /\ ret[1].val.accessor = "batch_shape"
    /\ ret[2].val.accessor = "event_shape"
    /\ self._event_shape.val # <<>>

\* C10 as stated: the inference pass runs at most once per instance, racing
\* first calls included.
C10_Original == infer_runs <= 1

\* C10 (amended): the inference pass runs at most once in each calling
\* thread, hence at most once for a single caller and at most as many times
\* as there are threads racing on their first accessor calls.
C10_OncePerThread ==
    /\ \A t \in Threads : thread_runs[t] <= 1
    /\ infer_runs <= NumThreads
    /\ (\A t \in Threads : t # 1 => ret[t] = None /\ pc[t] = "idle")
         => infer_runs <= 1

C10_Witness ==
    /\ Finished
    /\ infer_runs >= 2
    /\ self._batch_shape = Some(<<>>)

====
